---- MODULE Spec2Model ----
(***************************************************************************)
(* State-machine model of the SMRT Laundry client: the chat screen         *)
(* (ChatScreen.send), the price list screen (PricesScreen.load and its     *)
(* pager), the report screen (ReportsScreen.load) on top of the useApi     *)
(* hook, and the tab switch of App that mounts and unmounts the screens.   *)
(*                                                                         *)
(* Conventions.                                                            *)
(*  - A string is a sequence of tokens; a token is " " (white space) or a  *)
(*    piece of text without white space at its ends.  String.trim is Trim. *)
(*  - A React event handler and the render (with its effects) that its     *)
(*    state updates cause form one step: React flushes a discrete event's  *)
(*    updates before the next event is delivered, so every handler reads   *)
(*    the state of the latest render, except inside one handler, where the *)
(*    closure still holds the values of the render that created it.        *)
(*  - fetch(...) followed by res.json() is one pending request; the step   *)
(*    that settles it picks the outcome (a decoded response, a rejected    *)
(*    fetch, an undecodable body).  Nothing of the program's state changes *)
(*    between the two awaits.                                              *)
(*  - A screen that App unmounts loses its state; the next mount starts    *)
(*    from the useState initialisers.  Requests of an unmounted screen stay*)
(*    in flight (nothing cancels them) and their setState calls do nothing.*)
(***************************************************************************)
EXTENDS Integers, Sequences, FiniteSets, Bags, TLC

VARIABLES
    tab,        \* App: the mounted tab, "home" | "chat" | "pricing"
    messages,   \* ChatScreen: the message log
    input,      \* ChatScreen: the input buffer
    busy,       \* ChatScreen: the busy flag
    chatReqs,   \* POST /chat requests in flight (a bag)
    now,        \* Date.now(), a non-decreasing millisecond clock
    data,       \* PricesScreen: the rows on display
    total,      \* PricesScreen: the row count of the last response
    q,          \* PricesScreen: the search text buffer
    loading,    \* PricesScreen: the loading flag
    page,       \* PricesScreen: the page index, from 0
    priceReqs,  \* GET /pricelist requests in flight (a bag)
    cid,        \* ReportsScreen: the customer id buffer
    report,     \* ReportsScreen: the report snapshot, or Null
    api_loading, \* useApi: loading
    api_error,  \* useApi: error, or Null
    apiReqs,    \* requests of the useApi hook in flight (a bag)
    ev          \* the last event handled: its name and, for a settled
                \* request, the request and its outcome

chatVars == <<messages, input, busy, chatReqs>>
priceVars == <<data, total, q, loading, page, priceReqs>>
reportVars == <<cid, report, api_loading, api_error, apiReqs>>
vars == <<tab, messages, input, busy, chatReqs, now,
          data, total, q, loading, page, priceReqs,
          cid, report, api_loading, api_error, apiReqs, ev>>

----------------------------------------------------------------------------
(* Bounds of the model. *)

MaxTurns == 2       \* user messages per mounted chat screen
MaxInFlight == 2    \* requests in flight per endpoint
MaxClock == 1       \* last clock value
MaxPages == 2       \* pages of the longest price list the server holds

----------------------------------------------------------------------------
(* Strings. *)

(* the texts that are typed into a text field: empty, white space only,    *)
(* plain, and with white space at both ends and inside                     *)
Texts == { <<>>, <<" ", " ">>, <<"a">>, <<" ", " ", "a", " ", "b", " ">> }

RECURSIVE TrimStart(_)
TrimStart(s) == IF s # <<>> /\ Head(s) = " " THEN TrimStart(Tail(s)) ELSE s

RECURSIVE TrimEnd(_)
TrimEnd(s) ==
    IF s # <<>> /\ s[Len(s)] = " " THEN TrimEnd(SubSeq(s, 1, Len(s) - 1)) ELSE s

Trim(s) == TrimEnd(TrimStart(s))

RECURSIVE Join(_, _)
Join(list, sep) ==
    IF list = <<>> THEN <<>>
    ELSE IF Len(list) = 1 THEN list[1]
    ELSE list[1] \o sep \o Join(Tail(list), sep)

NL == <<"\n">>

String(n) == ToString(n)

----------------------------------------------------------------------------
(* ChatScreen. *)

Msg(id, role, text) == [id |-> id, role |-> role, text |-> text]

(* the greeting of the source, its back quotes written as quotes *)
Greeting ==
    Msg("hello", "assistant",
        <<"Hi! Type a query below (e.g., 'top customers by revenue').">>)

EXAMPLES ==
    << <<"total", " ", "revenue", " ", "for", " ", "CID:", " ", "1000001">>,
       <<"orders", " ", "for", " ", "cid:", " ", "1000001", " ", "between", " ",
         "2025-08-01", " ", "and", " ", "2025-08-03">>,
       <<"top", " ", "customers", " ", "by", " ", "revenue">>,
       <<"price", " ", "for", " ", "item_id", " ", "30310">> >>

WARN == "(warning sign)"
CHECK == "(check mark)"
INFO == "(information sign)"

(* What a POST /chat request can settle with.  A decoded response is its   *)
(* status (ok) and the members of its JSON body; a member that the body    *)
(* lacks is no field of the record.  A row is a sequence of <<key, value>>.*)
ChatErrorBodies ==
    { [ok |-> FALSE],
      [ok |-> FALSE,
       detail |-> [message |-> <<"unknown table">>,
                   issues |-> << <<"table X not allowed">>, <<"use Pricelist">> >>]],
      [ok |-> FALSE,
       detail |-> [message |-> <<"validation failed">>,
                   sql |-> <<"SELECT * FROM X">>]] }

ChatOkBodies ==
    { [ok |-> TRUE, answer |-> <<"Top customers">>, sql |-> <<"SELECT cid">>,
       rows |-> << << <<"cid", 1000001>>, <<"revenue", 500>> >>,
                   << <<"cid", 1000002>>, <<"revenue", 300>> >> >>],
      [ok |-> TRUE, answer |-> <<"No orders">>, sql |-> <<"SELECT oid">>,
       rows |-> <<>>],
      [ok |-> TRUE, answer |-> <<"FAQ answer">>, sql |-> <<"-">>] }

Thrown ==
    { [threw |-> "fetch", message |-> <<>>],
      [threw |-> "json", message |-> <<"Unexpected token < in JSON at position 0">>] }

ChatOutcomes == ChatErrorBodies \cup ChatOkBodies \cup Thrown

Has(r, f) == f \in DOMAIN r

IsThrown(o) == Has(o, "threw")

(* a member that may be missing, inside a template literal *)
Interp(r, f) == IF Has(r, f) THEN r[f] ELSE <<"undefined">>

RECURSIVE StringifyMembers(_)
StringifyMembers(row) ==
    IF row = <<>> THEN <<>>
    ELSE <<"\n", "  ", "\"" \o row[1][1] \o "\"", ": ", String(row[1][2])>>
         \o (IF Len(row) > 1 THEN <<",">> ELSE <<>>)
         \o StringifyMembers(Tail(row))

(* JSON.stringify(row, null, 2) *)
JSONStringify(row) ==
    IF row = <<>> THEN <<"{}">> ELSE <<"{">> \o StringifyMembers(row) \o <<"\n", "}">>

(* ErrorText joining the issues with a comma, and with no query text *)
ErrorText_flat(json) ==
    LET detail == IF Has(json, "detail") THEN json.detail ELSE [none |-> TRUE]
        issues == IF Has(detail, "issues") THEN Join(detail.issues, <<", ">>) ELSE <<>>
        message == IF Has(detail, "message") /\ detail.message # <<>>
                   THEN detail.message ELSE <<"Failed to query">>
        errMsg == message \o (IF issues # <<>> THEN NL \o issues ELSE <<>>)
    IN  <<WARN, " ">> \o errMsg \o <<"\n", "\n", "SQL:", "\n">>

(* the text of the assistant message for a non-success response *)
ErrorText(json) ==
    LET detail == IF Has(json, "detail") THEN json.detail ELSE [none |-> TRUE]
        issues == IF Has(detail, "issues") THEN Join(detail.issues, NL) ELSE <<>>
        message == IF Has(detail, "message") /\ detail.message # <<>>
                   THEN detail.message ELSE <<"Failed to query">>
        errMsg == message \o (IF issues # <<>> THEN NL \o issues ELSE <<>>)
        sql == IF Has(detail, "sql") THEN detail.sql ELSE <<>>
    IN  <<WARN, " ">> \o errMsg \o <<"\n", "\n", "SQL:", "\n">> \o sql

(* pretty printing the last row, and with the row excerpt heading even     *)
(* when there is no row                                                    *)
pretty_lastRow(json) ==
    IF Has(json, "rows") /\ Len(json.rows) > 0
    THEN <<CHECK, " ">> \o Interp(json, "answer") \o <<"\n", "\n", "SQL:", "\n">>
         \o Interp(json, "sql") \o <<"\n", "\n", "First row:", "\n">>
         \o JSONStringify(json.rows[Len(json.rows)])
    ELSE <<INFO, " ">> \o Interp(json, "answer") \o <<"\n", "\n", "SQL:", "\n">>
         \o Interp(json, "sql") \o <<"\n", "\n", "First row:", "\n">>

(* the text of the assistant message for a success response *)
pretty(json) ==
    IF Has(json, "rows") /\ Len(json.rows) > 0
    THEN <<CHECK, " ">> \o Interp(json, "answer") \o <<"\n", "\n", "SQL:", "\n">>
         \o Interp(json, "sql") \o <<"\n", "\n", "First row:", "\n">>
         \o JSONStringify(json.rows[1])
    ELSE <<INFO, " ">> \o Interp(json, "answer") \o <<"\n", "\n", "SQL:", "\n">>
         \o Interp(json, "sql")

(* the text of the assistant message for a thrown failure *)
CatchText(e) ==
    <<WARN, " ">> \o (IF e.message # <<>> THEN e.message ELSE <<"Network error">>)

ChatRequest(trimmed) ==
    [path |-> "/chat", body |-> [message |-> trimmed, limit |-> 50], live |-> TRUE]

(* send without the busy test of its guard *)
send_ignoresBusy(text) ==
    LET trimmed == Trim(text) IN
    IF trimmed = <<>>
    THEN UNCHANGED chatVars
    ELSE /\ messages' = Append(messages, Msg(String(now), "user", trimmed))
         /\ input' = <<>>
         /\ busy' = TRUE
         /\ chatReqs' = chatReqs (+) SetToBag({ChatRequest(trimmed)})

(* send with the guard !trimmed && busy *)
send_andGuard(text) ==
    LET trimmed == Trim(text) IN
    IF trimmed = <<>> /\ busy
    THEN UNCHANGED chatVars
    ELSE /\ messages' = Append(messages, Msg(String(now), "user", trimmed))
         /\ input' = <<>>
         /\ busy' = TRUE
         /\ chatReqs' = chatReqs (+) SetToBag({ChatRequest(trimmed)})

(* send with the guard testing text, not trimmed *)
send_noTrim(text) ==
    LET trimmed == Trim(text) IN
    IF text = <<>> \/ busy
    THEN UNCHANGED chatVars
    ELSE /\ messages' = Append(messages, Msg(String(now), "user", trimmed))
         /\ input' = <<>>
         /\ busy' = TRUE
         /\ chatReqs' = chatReqs (+) SetToBag({ChatRequest(trimmed)})

(* send(text), up to its first await *)
send(text) ==
    LET trimmed == Trim(text) IN
    IF trimmed = <<>> \/ busy
    THEN UNCHANGED chatVars
    ELSE /\ messages' = Append(messages, Msg(String(now), "user", trimmed))
         /\ input' = <<>>
         /\ busy' = TRUE
         /\ chatReqs' = chatReqs (+) SetToBag({ChatRequest(trimmed)})

(* sendSettled without the catch block: a thrown failure appends nothing *)
sendSettled_noCatch(r, o) ==
    /\ chatReqs' = chatReqs (-) SetToBag({r})
    /\ UNCHANGED input
    /\ IF r.live
       THEN /\ messages' =
                 IF IsThrown(o)
                 THEN messages
                 ELSE IF ~o.ok
                 THEN Append(messages, Msg(String(now + 1), "assistant", ErrorText(o)))
                 ELSE Append(messages, Msg(String(now + 1), "assistant", pretty(o)))
            /\ busy' = FALSE
       ELSE UNCHANGED <<messages, busy>>

(* sendSettled putting the reply of a success in front of the last message *)
sendSettled_misplaced(r, o) ==
    /\ chatReqs' = chatReqs (-) SetToBag({r})
    /\ UNCHANGED input
    /\ IF r.live
       THEN /\ messages' =
                 IF IsThrown(o)
                 THEN Append(messages, Msg(String(now + 2), "assistant", CatchText(o)))
                 ELSE IF ~o.ok
                 THEN Append(messages, Msg(String(now + 1), "assistant", ErrorText(o)))
                 ELSE SubSeq(messages, 1, Len(messages) - 1)
                      \o <<Msg(String(now + 1), "assistant", pretty(o)),
                           messages[Len(messages)]>>
            /\ busy' = FALSE
       ELSE UNCHANGED <<messages, busy>>

(* send, from the point where request r settles with outcome o to its end *)
sendSettled(r, o) ==
    /\ chatReqs' = chatReqs (-) SetToBag({r})
    /\ UNCHANGED input
    /\ IF r.live
       THEN /\ messages' =
                 IF IsThrown(o)
                 THEN Append(messages, Msg(String(now + 2), "assistant", CatchText(o)))
                 ELSE IF ~o.ok
                 THEN Append(messages, Msg(String(now + 1), "assistant", ErrorText(o)))
                 ELSE Append(messages, Msg(String(now + 1), "assistant", pretty(o)))
            /\ busy' = FALSE
       ELSE UNCHANGED <<messages, busy>>

(* state of a ChatScreen that has just been mounted *)
ChatMounted ==
    /\ messages' = <<Greeting>>
    /\ input' = <<>>
    /\ busy' = FALSE

(* a request whose screen is gone: only its being in flight is left to see *)
Orphan(r) == [path |-> r.path, live |-> FALSE]

(* the ChatScreen is unmounted: its state is dropped, its requests go on *)
ChatUnmounted ==
    /\ ChatMounted
    /\ chatReqs' = BagOfAll(Orphan, chatReqs)

----------------------------------------------------------------------------
(* PricesScreen. *)

limit == 25

Max(a, b) == IF a >= b THEN a ELSE b

(* Math.ceil(a / b) for a >= 0, b > 0 *)
Ceil(a, b) == (a + b - 1) \div b

(* pages rounding the quotient down *)
pages_floor == Max(1, total \div limit)

pages == Max(1, Ceil(total, limit))

(* new URLSearchParams() after the set calls of load *)
URLSearchParams(offset, cq) ==
    IF Trim(cq) # <<>>
    THEN [limit |-> String(limit), offset |-> String(offset), q |-> Trim(cq)]
    ELSE [limit |-> String(limit), offset |-> String(offset)]

(* the request that load() issues when called from a render whose page is  *)
(* cpage and whose q is cq (offset = page * limit is a constant of the     *)
(* render)                                                                 *)
load(cpage, cq) ==
    [path |-> "/pricelist", params |-> URLSearchParams(cpage * limit, cq),
     live |-> TRUE]

(* load() called once per request of the bag reqs, up to the await *)
loadCalled(reqs) ==
    /\ loading' = TRUE
    /\ priceReqs' = priceReqs (+) reqs

(* a row of the price list, given by its item_id (name and baseprice are   *)
(* only displayed)                                                         *)
PriceRow(i) == i

(* row counts of the price lists the server may hold *)
RowCounts ==
    {0, 3} \cup {limit * k : k \in 1..(MaxPages - 1)}
           \cup {limit * k + 1 : k \in 1..(MaxPages - 1)}

Min(a, b) == IF a <= b THEN a ELSE b

(* the rows offset+1 .. offset+limit of a list of n rows *)
Slice(offset, n) ==
    [i \in 1..Max(0, Min(limit, n - offset)) |-> PriceRow(offset + i)]

(* What GET /pricelist can settle with, for a request of the given offset. *)
PriceOutcomes(offset) ==
    { [ok |-> TRUE, rows |-> Slice(offset, n), row_count |-> n] : n \in RowCounts }
    \cup { [ok |-> TRUE],
           [ok |-> FALSE, detail |-> [message |-> <<"bad limit">>]] }
    \cup Thrown

(* the offset a request was sent with *)
OffsetOf(r) == CHOOSE n \in 0..(limit * (MaxPages + 1)) : String(n) = r.params.offset

(* loadSettled with a catch block that leaves data and total alone *)
loadSettled_keepsStale(r, o) ==
    /\ priceReqs' = priceReqs (-) SetToBag({r})
    /\ UNCHANGED <<q, page>>
    /\ IF r.live
       THEN /\ IF ~IsThrown(o) /\ o.ok
               THEN /\ data' = (IF Has(o, "rows") THEN o.rows ELSE <<>>)
                    /\ total' = (IF Has(o, "row_count") THEN o.row_count ELSE 0)
               ELSE UNCHANGED <<data, total>>
            /\ loading' = FALSE
       ELSE UNCHANGED <<data, total, loading>>

(* loadSettled dropping the response of a request that is not for the     *)
(* page on display                                                         *)
loadSettled_dropsSuperseded(r, o) ==
    /\ priceReqs' = priceReqs (-) SetToBag({r})
    /\ UNCHANGED <<q, page>>
    /\ IF r.live /\ OffsetOf(r) = page * limit
       THEN /\ IF ~IsThrown(o) /\ o.ok
               THEN /\ data' = (IF Has(o, "rows") THEN o.rows ELSE <<>>)
                    /\ total' = (IF Has(o, "row_count") THEN o.row_count ELSE 0)
               ELSE /\ data' = <<>>
                    /\ total' = 0
            /\ loading' = FALSE
       ELSE UNCHANGED <<data, total, loading>>

(* load, from the point where request r settles with outcome o to its end *)
loadSettled(r, o) ==
    /\ priceReqs' = priceReqs (-) SetToBag({r})
    /\ UNCHANGED <<q, page>>
    /\ IF r.live
       THEN /\ IF ~IsThrown(o) /\ o.ok
               THEN /\ data' = (IF Has(o, "rows") THEN o.rows ELSE <<>>)
                    /\ total' = (IF Has(o, "row_count") THEN o.row_count ELSE 0)
               ELSE /\ data' = <<>>
                    /\ total' = 0
            /\ loading' = FALSE
       ELSE UNCHANGED <<data, total, loading>>

(* Searchbar onSubmitEditing and the magnifier's onPress: setPage(0), then *)
(* load() of the render the handler belongs to, then, if page changed, the *)
(* effect of the next render, load() of that render                        *)
runSearch ==
    /\ page' = 0
    /\ loadCalled(SetToBag({load(page, q)})
                  (+) (IF page # 0 THEN SetToBag({load(0, q)}) ELSE EmptyBag))
    /\ UNCHANGED <<data, total, q>>

(* setPage whose load() still has the offset of the page left behind *)
setPage_staleOffset(next) ==
    /\ page' = next
    /\ IF next # page
       THEN loadCalled(SetToBag({load(page, q)}))
       ELSE UNCHANGED <<loading, priceReqs>>
    /\ UNCHANGED <<data, total, q>>

(* setPage(next) of a pager button, and the effect if page changed *)
setPage(next) ==
    /\ page' = next
    /\ IF next # page
       THEN loadCalled(SetToBag({load(next, q)}))
       ELSE UNCHANGED <<loading, priceReqs>>
    /\ UNCHANGED <<data, total, q>>

prevDisabled == page <= 0

nextDisabled == (page + 1) >= pages

(* state of a PricesScreen that has just been mounted, its effect not run *)
PricesInitial ==
    /\ data' = <<>>
    /\ total' = 0
    /\ q' = <<>>
    /\ page' = 0

(* the PricesScreen is mounted: the effect runs load() *)
PricesMounted ==
    /\ PricesInitial
    /\ loadCalled(SetToBag({load(0, <<>>)}))

(* the PricesScreen is unmounted: its state is dropped, its requests go on *)
PricesUnmounted ==
    /\ PricesInitial
    /\ loading' = FALSE
    /\ priceReqs' = BagOfAll(Orphan, priceReqs)

----------------------------------------------------------------------------
(* useApi and ReportsScreen. *)

(* a value that may be null: Null, or Some(v) *)
Null == <<>>

Some(v) == <<v>>

RECURSIVE CompactMembers(_)
CompactMembers(ms) ==
    IF ms = <<>> THEN <<>>
    ELSE <<"\"" \o ms[1][1] \o "\"", ":", String(ms[1][2])>>
         \o (IF Len(ms) > 1 THEN <<",">> ELSE <<>>)
         \o CompactMembers(Tail(ms))

(* JSON.stringify(data) of a body that is a flat object *)
JSONStringifyCompact(ms) == <<"{">> \o CompactMembers(ms) \o <<"}">>

Report(c, n) ==
    [summary |-> [orders |-> n, units |-> 2 * n, revenue |-> 100 * n],
     timeseries |-> << [day |-> "2025-08-01", revenue |-> 100 * n] >>,
     sql |-> [summary |-> "SELECT summary " \o c, timeseries |-> "SELECT series " \o c]]

Cids == {"1001", "1002"}

ReportPath(c) == "/report/customer/" \o c

(* What a request of the hook can settle with.  A body without a detail    *)
(* member is given by its members, a sequence of <<key, value>>.           *)
ApiOutcomes(path) ==
    { [ok |-> TRUE, data |-> Report(c, n)] : c \in {c \in Cids : ReportPath(c) = path},
                                             n \in {1, 2} }
    \cup { [ok |-> TRUE, data |-> [saved |-> TRUE]] : p \in {path} \ {ReportPath(c) : c \in Cids} }
    \cup { [ok |-> FALSE, detail |-> [message |-> <<"unknown customer">>]],
           [ok |-> FALSE, members |-> << <<"status", 500>> >>] }
    \cup Thrown

(* the message of the Error that get and post throw on a non-success status *)
StatusError(o) ==
    IF Has(o, "detail") /\ Has(o.detail, "message") /\ o.detail.message # <<>>
    THEN o.detail.message
    ELSE JSONStringifyCompact(IF Has(o, "members") THEN o.members ELSE <<>>)

(* get(path) and post(path, body), up to the await: they differ in the     *)
(* request only                                                            *)
request(method, path, caller) ==
    /\ api_loading' = TRUE
    /\ api_error' = Null
    /\ apiReqs' = apiReqs (+) SetToBag({[method |-> method, path |-> path,
                                          caller |-> caller]})

get(path, caller) == request("GET", path, caller)

post(path, caller) == request("POST", path, caller)

(* the message of what the try block of get and post throws, if it throws *)
thrownMessage(o) ==
    IF IsThrown(o) THEN Some(o.message)
    ELSE IF ~o.ok THEN Some(StatusError(o))
    ELSE Null

(* requestSettled with a caller whose catch block drops the report *)
requestSettled_dropsReport(r, o) ==
    /\ apiReqs' = apiReqs (-) SetToBag({r})
    /\ UNCHANGED cid
    /\ IF thrownMessage(o) = Null
       THEN /\ UNCHANGED api_error
            /\ report' = (IF r.caller = "ReportsScreen.load" THEN Some(o.data) ELSE report)
       ELSE /\ api_error' = Some(IF thrownMessage(o)[1] # <<>> THEN thrownMessage(o)[1]
                                  ELSE <<"Request failed">>)
            /\ report' = (IF r.caller = "ReportsScreen.load" THEN Null ELSE report)
    /\ api_loading' = FALSE

(* requestSettled with setLoading(false) after the try, not in a finally *)
requestSettled_noFinally(r, o) ==
    /\ apiReqs' = apiReqs (-) SetToBag({r})
    /\ UNCHANGED cid
    /\ IF thrownMessage(o) = Null
       THEN /\ UNCHANGED api_error
            /\ report' = (IF r.caller = "ReportsScreen.load" THEN Some(o.data) ELSE report)
            /\ api_loading' = FALSE
       ELSE /\ api_error' = Some(IF thrownMessage(o)[1] # <<>> THEN thrownMessage(o)[1]
                                  ELSE <<"Request failed">>)
            /\ UNCHANGED <<report, api_loading>>

(* get and post, from the point where request r settles with outcome o to  *)
(* their end, and the continuation of the caller                           *)
requestSettled(r, o) ==
    /\ apiReqs' = apiReqs (-) SetToBag({r})
    /\ UNCHANGED cid
    /\ IF thrownMessage(o) = Null
       THEN /\ UNCHANGED api_error
            /\ report' = (IF r.caller = "ReportsScreen.load" THEN Some(o.data) ELSE report)
       ELSE /\ api_error' = Some(IF thrownMessage(o)[1] # <<>> THEN thrownMessage(o)[1]
                                  ELSE <<"Request failed">>)
            /\ UNCHANGED report
    /\ api_loading' = FALSE

(* ReportsScreen.load, up to the await *)
reportLoad == get(ReportPath(cid), "ReportsScreen.load") /\ UNCHANGED <<cid, report>>

----------------------------------------------------------------------------
(* App. *)

Tabs == {"home", "chat", "pricing"}

setTab(t) ==
    /\ tab' = t
    /\ IF tab = "chat" /\ t # "chat" THEN ChatUnmounted
       ELSE IF tab # "chat" /\ t = "chat" THEN ChatMounted /\ UNCHANGED chatReqs
       ELSE UNCHANGED chatVars
    /\ IF tab = "pricing" /\ t # "pricing" THEN PricesUnmounted
       ELSE IF tab # "pricing" /\ t = "pricing" THEN PricesMounted
       ELSE UNCHANGED priceVars

----------------------------------------------------------------------------
(* The events. *)

Ev(op, arg) == [op |-> op, arg |-> arg]

(* the outcome of a request whose screen is gone: nothing reads it *)
Unobserved == {[threw |-> "fetch", message |-> <<>>]}

Turns == Cardinality({i \in DOMAIN messages : messages[i].role = "user"})

(* a send that would start a request stays within the model's bounds *)
SendWithinBounds(text) ==
    \/ Trim(text) = <<>>
    \/ busy
    \/ Turns < MaxTurns /\ BagCardinality(chatReqs) < MaxInFlight

OnChangeText ==
    /\ tab = "chat"
    /\ \E s \in Texts : input' = s
    /\ ev' = Ev("onChangeText", <<>>)
    /\ UNCHANGED <<tab, messages, busy, chatReqs, now, priceVars, reportVars>>

SendInput ==
    /\ tab = "chat"
    /\ SendWithinBounds(input)
    /\ send(input)
    /\ ev' = Ev("sendInput", <<>>)
    /\ UNCHANGED <<tab, now, priceVars, reportVars>>

RunExample ==
    /\ tab = "chat"
    /\ \E i \in DOMAIN EXAMPLES :
          /\ SendWithinBounds(EXAMPLES[i])
          /\ send(EXAMPLES[i])
    /\ ev' = Ev("runExample", <<>>)
    /\ UNCHANGED <<tab, now, priceVars, reportVars>>

ChatSettle ==
    /\ \E r \in BagToSet(chatReqs) :
          \E o \in (IF r.live THEN ChatOutcomes ELSE Unobserved) :
             /\ sendSettled(r, o)
             /\ ev' = Ev("chatSettle", [req |-> r, out |-> o])
    /\ UNCHANGED <<tab, now, priceVars, reportVars>>

(* a tab button of the tab bar; mounting the price list issues a request *)
PressTab(t) ==
    /\ t = "pricing" /\ tab # "pricing" => BagCardinality(priceReqs) < MaxInFlight
    /\ setTab(t)
    /\ ev' = Ev("pressTab", <<>>)
    /\ UNCHANGED <<now, reportVars>>

OnStart ==
    /\ tab = "home"
    /\ setTab("chat")
    /\ ev' = Ev("onStart", <<>>)
    /\ UNCHANGED <<now, reportVars>>

(* Tick with a timeout that gives up the request in flight *)
Tick_timeout ==
    /\ now < MaxClock
    /\ now' = now + 1
    /\ busy' = FALSE
    /\ ev' = Ev("tick", <<>>)
    /\ UNCHANGED <<tab, messages, input, chatReqs, priceVars, reportVars>>

Tick ==
    /\ now < MaxClock
    /\ now' = now + 1
    /\ ev' = Ev("tick", <<>>)
    /\ UNCHANGED <<tab, chatVars, priceVars, reportVars>>

(* SetQ with an effect that depends on q and so fetches at every change *)
SetQ_fetches ==
    /\ tab = "pricing"
    /\ \E s \in Texts : q' = s /\ loadCalled(SetToBag({load(page, s)}))
    /\ ev' = Ev("setQ", <<>>)
    /\ UNCHANGED <<tab, chatVars, now, data, total, page, reportVars>>

SetQ ==
    /\ tab = "pricing"
    /\ \E s \in Texts : q' = s
    /\ ev' = Ev("setQ", <<>>)
    /\ UNCHANGED <<tab, chatVars, now, data, total, loading, page, priceReqs, reportVars>>

RunSearch ==
    /\ tab = "pricing"
    /\ BagCardinality(priceReqs) + (IF page # 0 THEN 2 ELSE 1) <= MaxInFlight
    /\ runSearch
    /\ ev' = Ev("runSearch", <<>>)
    /\ UNCHANGED <<tab, chatVars, now, reportVars>>

PrevPage ==
    /\ tab = "pricing"
    /\ ~prevDisabled
    /\ BagCardinality(priceReqs) < MaxInFlight
    /\ setPage(Max(0, page - 1))
    /\ ev' = Ev("prevPage", <<>>)
    /\ UNCHANGED <<tab, chatVars, now, reportVars>>

NextPage ==
    /\ tab = "pricing"
    /\ ~nextDisabled
    /\ BagCardinality(priceReqs) < MaxInFlight
    /\ setPage(page + 1)
    /\ ev' = Ev("nextPage", <<>>)
    /\ UNCHANGED <<tab, chatVars, now, reportVars>>

PriceSettle ==
    /\ \E r \in BagToSet(priceReqs) :
          \E o \in (IF r.live THEN PriceOutcomes(OffsetOf(r)) ELSE Unobserved) :
             /\ loadSettled(r, o)
             /\ ev' = Ev("priceSettle", [req |-> r, out |-> o])
    /\ UNCHANGED <<tab, chatVars, now, reportVars>>

SetCid ==
    /\ \E c \in Cids : cid' = c
    /\ ev' = Ev("setCid", <<>>)
    /\ UNCHANGED <<tab, chatVars, now, priceVars, report, api_loading, api_error, apiReqs>>

(* the Load button, disabled while the hook is loading *)
PressLoad ==
    /\ ~api_loading
    /\ BagCardinality(apiReqs) < MaxInFlight
    /\ reportLoad
    /\ ev' = Ev("pressLoad", <<>>)
    /\ UNCHANGED <<tab, chatVars, now, priceVars>>

(* post has no caller in the repository: it is called here as any user of  *)
(* the hook may call it, at any time                                       *)
CallPost ==
    /\ BagCardinality(apiReqs) < MaxInFlight
    /\ post("/chat", "none")
    /\ ev' = Ev("callPost", <<>>)
    /\ UNCHANGED <<tab, chatVars, now, priceVars, cid, report>>

(* ApiSettle with the hook and the price list sharing one loading flag *)
ApiSettle_sharedLoading ==
    /\ \E r \in BagToSet(apiReqs) :
          \E o \in ApiOutcomes(r.path) :
             /\ requestSettled(r, o)
             /\ ev' = Ev("apiSettle", [req |-> r, out |-> o])
    /\ loading' = FALSE
    /\ UNCHANGED <<tab, chatVars, now, data, total, q, page, priceReqs>>

ApiSettle ==
    /\ \E r \in BagToSet(apiReqs) :
          \E o \in ApiOutcomes(r.path) :
             /\ requestSettled(r, o)
             /\ ev' = Ev("apiSettle", [req |-> r, out |-> o])
    /\ UNCHANGED <<tab, chatVars, now, priceVars>>

Init ==
    /\ tab = "chat"
    /\ messages = <<Greeting>>
    /\ input = <<>>
    /\ busy = FALSE
    /\ chatReqs = EmptyBag
    /\ now = 0
    /\ data = <<>>
    /\ total = 0
    /\ q = <<>>
    /\ loading = FALSE
    /\ page = 0
    /\ priceReqs = EmptyBag
    /\ cid = "1001"
    /\ report = Null
    /\ api_loading = FALSE
    /\ api_error = Null
    /\ apiReqs = EmptyBag
    /\ ev = Ev("start", <<>>)

(* The chat screen: the user stays on the chat and home tabs. *)
NextChat ==
    \/ OnChangeText
    \/ SendInput
    \/ RunExample
    \/ ChatSettle
    \/ \E t \in {"home", "chat"} : PressTab(t)
    \/ OnStart
    \/ Tick

SpecChat == Init /\ [][NextChat]_vars

(* The chat screen when every request that was issued settles in the end:  *)
(* fetch and res.json() resolve or reject, they do not hang.               *)
SpecChatFair == SpecChat /\ WF_vars(ChatSettle)

(* The price list screen: the user stays on the pricing and home tabs. *)
NextPrices ==
    \/ SetQ
    \/ RunSearch
    \/ PrevPage
    \/ NextPage
    \/ PriceSettle
    \/ \E t \in {"home", "pricing"} : PressTab(t)

SpecPrices == Init /\ [][NextPrices]_vars

(* The report screen and the hook. *)
NextReports ==
    \/ SetCid
    \/ PressLoad
    \/ CallPost
    \/ ApiSettle

SpecReports == Init /\ [][NextReports]_vars

(* The three controllers side by side: the requests they issue, the        *)
(* responses they handle and the tab switches, without the typing.         *)
NextApp ==
    \/ RunExample
    \/ ChatSettle
    \/ \E t \in Tabs : PressTab(t)
    \/ OnStart
    \/ RunSearch
    \/ PrevPage
    \/ NextPage
    \/ PriceSettle
    \/ PressLoad
    \/ ApiSettle

SpecApp == Init /\ [][NextApp]_vars

(* The whole client. *)
Next ==
    \/ NextChat
    \/ NextPrices
    \/ NextReports

Spec == Init /\ [][Next]_vars

----------------------------------------------------------------------------
(* Properties of the chat screen, checked under SpecChat. *)

(* the requests in flight that the mounted screen issued *)
Live(B) == [r \in {x \in DOMAIN B : x.live} |-> B[r]]

LiveCount(B) == BagCardinality(Live(B))

Last(seq) == seq[Len(seq)]

Range(seq) == {seq[i] : i \in DOMAIN seq}

(* the step settles a request of the mounted chat screen *)
LiveChatSettled == ev'.op = "chatSettle" /\ ev'.arg.req.live

(* C1: a submit of a text whose trimmed form is not empty, made while the  *)
(* chat screen is idle, appends exactly one user message and issues the    *)
(* request; the request's settling, whatever the outcome, appends exactly  *)
(* one assistant message after it and clears busy; between the two the log *)
(* ends with the user message, and when idle it ends with an assistant     *)
(* message.                                                                *)
C1_FullTurn ==
    /\ [](busy <=> Last(messages).role = "user")
    /\ [](busy <=> LiveCount(chatReqs) = 1)
    /\ [][ /\ ev'.op \in {"sendInput", "runExample"} /\ ~busy
              /\ (ev'.op = "sendInput" => Trim(input) # <<>>)
              => /\ Len(messages') = Len(messages) + 1
                 /\ SubSeq(messages', 1, Len(messages)) = messages
                 /\ Last(messages').role = "user"
                 /\ ev'.op = "sendInput" => Last(messages').text = Trim(input)
                 /\ ev'.op = "runExample" => Last(messages').text \in Range(EXAMPLES)
                 /\ busy'
                 /\ chatReqs' = chatReqs (+) SetToBag({ChatRequest(Last(messages').text)})
           /\ LiveChatSettled
              => /\ Len(messages') = Len(messages) + 1
                 /\ SubSeq(messages', 1, Len(messages)) = messages
                 /\ Last(messages).role = "user"
                 /\ Last(messages').role = "assistant"
                 /\ ~busy'
         ]_vars

(* a full turn has been made with each kind of outcome *)
C1_Witness ==
    /\ ~busy
    /\ Len(messages) = 5
    /\ messages[3].text[1] = WARN
    /\ messages[5].text[1] = CHECK
    /\ ev.op = "chatSettle"

(* C2: the mounted chat screen never has more than one POST /chat request  *)
(* in flight.                                                              *)
C2_OneInFlight == LiveCount(chatReqs) <= 1

(* a typed submit was made while a request was in flight, and was refused *)
C2_Witness ==
    /\ ev.op = "sendInput"
    /\ Trim(input) # <<>>
    /\ busy
    /\ LiveCount(chatReqs) = 1

(* C3: after the greeting the log alternates user message, assistant       *)
(* message, and the assistant message that a settling request appends      *)
(* comes right after the user message that the request carries.            *)
C3_LogOrder ==
    /\ [](/\ messages[1] = Greeting
          /\ \A i \in 2..Len(messages) :
                messages[i].role = (IF i % 2 = 0 THEN "user" ELSE "assistant"))
    /\ [][LiveChatSettled
            => /\ Last(messages).role = "user"
               /\ Last(messages).text = ev'.arg.req.body.message
               /\ SubSeq(messages', 1, Len(messages)) = messages
               /\ Len(messages') = Len(messages) + 1
               /\ Last(messages').role = "assistant"]_vars

(* two turns of different texts, the second one's request in flight *)
C3_Witness ==
    /\ Len(messages) = 4
    /\ messages[2].text # messages[4].text
    /\ busy

(* C4: send of a text that is empty or white space only changes nothing:   *)
(* not the log, not busy, not the input buffer, not the requests in flight.*)
C4_BlankNoOp ==
    [][ev'.op = "sendInput" /\ Trim(input) = <<>>
         => UNCHANGED <<messages, busy, input, chatReqs>>]_vars

(* white space was typed and submitted while idle *)
C4_Witness ==
    /\ ev.op = "sendInput"
    /\ input # <<>>
    /\ Trim(input) = <<>>
    /\ ~busy

(* C5: send while busy changes nothing: no user message, no request, the   *)
(* log and busy as they were.                                              *)
C5_BusyNoOp ==
    [][ev'.op \in {"sendInput", "runExample"} /\ busy
         => UNCHANGED <<messages, busy, chatReqs>>]_vars

(* an example card was pressed while a typed query was in flight *)
C5_Witness ==
    /\ ev.op = "runExample"
    /\ busy
    /\ Last(messages).role = "user"
    /\ Last(messages).text \notin Range(EXAMPLES)

(* the text has the non-empty text m inside it *)
Contains(text, m) ==
    /\ m # <<>>
    /\ \E i \in 1..(Len(text) - Len(m) + 1) : SubSeq(text, i, i + Len(m) - 1) = m

(* the outcome of the request that the step settles *)
Out == ev'.arg.out

(* the text of the message that the step appends *)
Appended == Last(messages').text

Heading(h) == <<"\n", "\n", h, "\n">>

(* C11: when a request of the mounted chat screen fails with a rejected    *)
(* fetch or an undecodable body, the appended assistant message is the     *)
(* warning marker and the note "Network error", and the message of the     *)
(* exception is not in its text.                                           *)
C11_TransportFailureGeneric ==
    [][LiveChatSettled /\ IsThrown(Out)
         => /\ Appended = <<WARN, " ", "Network error">>
            /\ ~Contains(Appended, Out.message)]_vars

(* C12: the message log only grows: every step, a tab switch included,     *)
(* leaves every message of the log where it was, with its id, role and     *)
(* text.                                                                   *)
C12_AppendOnly ==
    [][/\ Len(messages') >= Len(messages)
       /\ SubSeq(messages', 1, Len(messages)) = messages]_vars

(* C13: no two messages of the log have the same id. *)
C13_UniqueIds ==
    \A i, j \in DOMAIN messages : i # j => messages[i].id # messages[j].id

(* C14: for a non-success response with a detail.message, the appended     *)
(* assistant message is the warning marker, the message, then each entry   *)
(* of detail.issues on a line of its own when there are issues, then the   *)
(* query heading followed by detail.sql when that was supplied and by      *)
(* nothing otherwise; it has no row excerpt.                               *)
C14_StructuredFailureText ==
    [][LiveChatSettled /\ ~IsThrown(Out) /\ ~Out.ok
         => /\ Appended[1] = WARN
            /\ ~Contains(Appended, <<"First row:">>)
            /\ Has(Out, "detail") =>
                 LET d == Out.detail
                     lines == IF Has(d, "issues") THEN d.issues ELSE <<>>
                 IN  /\ Appended =
                           <<WARN, " ">> \o Join(<<d.message>> \o lines, NL)
                           \o Heading("SQL:")
                           \o (IF Has(d, "sql") THEN d.sql ELSE <<>>)
                     /\ \A k \in DOMAIN lines : Contains(Appended, NL \o lines[k])]_vars

(* a response with an issue list was rendered after one with a query text *)
C14_Witness ==
    /\ ev.op = "chatSettle"
    /\ Len(messages) = 5
    /\ Contains(messages[3].text, <<"SELECT * FROM X">>)
    /\ Contains(messages[5].text, <<"unknown table", "\n", "table X not allowed",
                                     "\n", "use Pricelist">>)
    /\ ~Contains(messages[5].text, <<"SELECT * FROM X">>)

(* C15: for a success response with rows, the appended assistant message   *)
(* is the success marker, the answer, the query text and the pretty        *)
(* printed first row, and no other row; with no rows, or rows missing, it  *)
(* is the informational marker, the answer and the query text, with no row *)
(* excerpt; it never starts with the warning marker.                       *)
C15_SuccessText ==
    [][LiveChatSettled /\ ~IsThrown(Out) /\ Out.ok
         => /\ Appended[1] # WARN
            /\ IF Has(Out, "rows") /\ Out.rows # <<>>
               THEN /\ Appended = <<CHECK, " ">> \o Out.answer \o Heading("SQL:")
                                  \o Out.sql \o Heading("First row:")
                                  \o JSONStringify(Out.rows[1])
                    /\ \A k \in 2..Len(Out.rows) :
                          \A m \in DOMAIN Out.rows[k] :
                             ~Contains(Appended, <<String(Out.rows[k][m][2])>>)
               ELSE /\ Appended = <<INFO, " ">> \o Out.answer \o Heading("SQL:")
                                  \o Out.sql
                    /\ ~Contains(Appended, <<"First row:">>)]_vars

(* a response with two rows was rendered after one with no rows *)
C15_Witness ==
    /\ ev.op = "chatSettle"
    /\ Len(messages) = 5
    /\ messages[3].text[1] = INFO
    /\ messages[5].text[1] = CHECK
    /\ Has(ev.arg.out, "rows") /\ Len(ev.arg.out.rows) = 2
    /\ Contains(messages[5].text, <<"First row:">>)

(* C22: within a mounted chat screen busy goes from true to false only in  *)
(* the step that settles its request; as long as the request has not       *)
(* settled busy stays true, no assistant message is appended and every     *)
(* submit is refused; a request is issued only by a submit of the user,    *)
(* never by the settling of a failed one; and if every issued request      *)
(* settles in the end, busy becomes false in the end.                      *)
C22_NoTimeoutNoRetry ==
    /\ [][/\ busy /\ ~busy'
             => LiveChatSettled \/ (ev'.op \in {"pressTab", "onStart"} /\ tab' # "chat")
          /\ busy /\ ~LiveChatSettled /\ tab' = "chat"
             => /\ busy'
                /\ messages' = messages
                /\ Live(chatReqs') = Live(chatReqs)
          /\ (\E r \in DOMAIN chatReqs' : r.live /\ CopiesIn(r, chatReqs') > CopiesIn(r, chatReqs))
             => ev'.op \in {"sendInput", "runExample"}
          /\ LiveChatSettled => Live(chatReqs') = EmptyBag]_vars
    /\ (busy ~> ~busy)

(* the request has been in flight while the clock went on, and a typed     *)
(* submit was refused: the log still ends with the turn's user message     *)
C22_Witness ==
    /\ busy
    /\ now >= 1
    /\ ev.op = "sendInput"
    /\ Trim(input) # <<>>
    /\ Len(messages) = 2
    /\ messages[2].id = "0"

----------------------------------------------------------------------------
(* Properties of the price list screen, checked under SpecPrices. *)

(* the requests that a step puts in flight *)
Issued(B, C) == {r \in DOMAIN C : CopiesIn(r, C) > CopiesIn(r, B)}

(* the outcome is a failure: a thrown fetch, an undecodable body, a        *)
(* non-success status                                                      *)
Failed(o) == IsThrown(o) \/ ~o.ok

(* C6: a search resets page to 0, and every request it issues carries      *)
(* limit=25, offset=0 and the trimmed search text, q left out when that is *)
(* empty.                                                                  *)
C6_SearchFromPageZero ==
    [][ev'.op = "runSearch"
         => /\ page' = 0
            /\ \A r \in Issued(priceReqs, priceReqs') :
                  /\ r.params.limit = "25"
                  /\ r.params.offset = "0"
                  /\ IF Trim(q) = <<>> THEN ~Has(r.params, "q")
                     ELSE Has(r.params, "q") /\ r.params.q = Trim(q)]_vars

(* C7: the page index is never negative and always below the page count.   *)
C7_PageBounds == 0 <= page /\ page < pages

(* C8: when a request of the mounted price list fails, the rows on display *)
(* become the empty list, the row count 0 and loading false, whatever was  *)
(* on display.                                                             *)
C8_FailureEmpties ==
    [][ev'.op = "priceSettle" /\ ev'.arg.req.live /\ Failed(ev'.arg.out)
         => data' = <<>> /\ total' = 0 /\ ~loading']_vars

(* a request failed while rows of an earlier response were on display *)
C8_Witness ==
    /\ ev.op = "priceSettle"
    /\ ev.arg.req.live
    /\ Failed(ev.arg.out)
    /\ page = 1
    /\ data = <<>>
    /\ total = 0

(* C17: typing in the search bar changes the search text buffer only: no  *)
(* request is issued, and page, rows, row count and loading stay as they   *)
(* were.                                                                   *)
C17_TypingOnlyBuffers ==
    [][ev'.op = "setQ" => UNCHANGED <<page, data, total, loading, priceReqs>>]_vars

(* a search text was typed over rows on display, with nothing in flight *)
C17_Witness ==
    /\ ev.op = "setQ"
    /\ Trim(q) # <<>>
    /\ data # <<>>
    /\ page = 1
    /\ ~loading
    /\ priceReqs = EmptyBag

(* the request for page p with the search text s *)
PageRequest(p, s) ==
    [path |-> "/pricelist",
     params |-> IF Trim(s) = <<>>
                THEN [limit |-> "25", offset |-> String(25 * p)]
                ELSE [limit |-> "25", offset |-> String(25 * p), q |-> Trim(s)],
     live |-> TRUE]

(* C19: a press of a pager button that changes page issues exactly one     *)
(* request, GET /pricelist with limit=25, offset = 25 times the new page   *)
(* and the trimmed current search text, q left out when that is empty; one *)
(* that leaves page as it was issues none; page never goes below 0.        *)
C19_PageNavigation ==
    /\ [](page >= 0)
    /\ [][ev'.op \in {"prevPage", "nextPage"}
            => /\ page' >= 0
               /\ q' = q
               /\ IF page' # page
                  THEN priceReqs' = priceReqs (+) SetToBag({PageRequest(page', q)})
                  ELSE priceReqs' = priceReqs]_vars

(* the previous page was asked for, with a typed search text that has      *)
(* white space around it                                                   *)
C19_Witness ==
    /\ ev.op = "prevPage"
    /\ page = 0
    /\ q # Trim(q)
    /\ Trim(q) # <<>>
    /\ BagIn(PageRequest(0, q), priceReqs)

(* what a response puts on display *)
Shown(o) ==
    IF Failed(o) THEN [items |-> <<>>, count |-> 0]
    ELSE [items |-> IF Has(o, "rows") THEN o.rows ELSE <<>>,
          count |-> IF Has(o, "row_count") THEN o.row_count ELSE 0]

(* C20: a request of the mounted price list leaves the requests in flight  *)
(* only by settling, the others stay in flight; after it settled the rows  *)
(* and the row count on display are those of its response (empty and 0 for *)
(* a failure), whichever request was issued last; nothing else but a tab   *)
(* switch changes what is on display.                                      *)
C20_LastCompletedWins ==
    [][/\ ev'.op = "priceSettle"
          => /\ priceReqs' = priceReqs (-) SetToBag({ev'.arg.req})
             /\ ev'.arg.req.live
                => data' = Shown(Out).items /\ total' = Shown(Out).count
       /\ ev'.op \notin {"priceSettle", "pressTab", "onStart"}
          => /\ \A r \in DOMAIN priceReqs : CopiesIn(r, priceReqs') >= CopiesIn(r, priceReqs)
             /\ UNCHANGED <<data, total>>]_vars

(* the request for page 1 settled after the one for page 0 that was issued *)
(* after it: page 0 is on display's index, the rows of page 1 are shown    *)
C20_Witness ==
    /\ ev.op = "priceSettle"
    /\ ev.arg.req.live
    /\ OffsetOf(ev.arg.req) = 25
    /\ page = 0
    /\ data = <<PriceRow(26)>>
    /\ total = 26
    /\ priceReqs = EmptyBag

(* C21: the page count is 1 for a row count of at most 25 and otherwise    *)
(* the least number of pages of 25 rows that hold the rows; next is        *)
(* disabled exactly when page + 1 >= page count, previous exactly when     *)
(* page <= 0, and a press of either moves page by one inside these limits; *)
(* after a response with row_count <= 25 the page count is 1 and next is   *)
(* disabled.                                                               *)
C21_PageCount ==
    /\ [](/\ total >= 0
          /\ pages >= 1
          /\ 25 * pages >= total
          /\ pages > 1 => 25 * (pages - 1) < total
          /\ nextDisabled <=> page + 1 >= pages
          /\ prevDisabled <=> page <= 0)
    /\ [][/\ ev'.op = "nextPage" => ~nextDisabled /\ page' = page + 1
          /\ ev'.op = "prevPage" => ~prevDisabled /\ page' = page - 1
          /\ (/\ ev'.op = "priceSettle" /\ ev'.arg.req.live /\ ~Failed(Out)
              /\ Has(Out, "row_count") /\ Out.row_count <= 25)
             => pages' = 1 /\ nextDisabled']_vars

(* a search for a term came back with 3 rows and row_count = 3 *)
C21_Witness ==
    /\ ev.op = "priceSettle"
    /\ ev.arg.req.live
    /\ Has(ev.arg.req.params, "q")
    /\ Len(data) = 3
    /\ total = 3
    /\ page = 0
    /\ pages = 1
    /\ nextDisabled

(* C23: when a response of the mounted price list leaves no request in     *)
(* flight, it is the response to a request whose offset is 25 times the    *)
(* page index; as the rows change only with a response and the page index  *)
(* only with a new request, this is the consistency of rows and page index *)
(* whenever nothing is in flight.                                          *)
C23_QuiescentDisplay ==
    [][/\ ev'.op = "priceSettle" /\ ev'.arg.req.live /\ priceReqs' = EmptyBag
          => OffsetOf(ev'.arg.req) = 25 * page'
       /\ priceReqs = EmptyBag /\ priceReqs' = EmptyBag /\ tab' = tab
          => UNCHANGED <<data, total, page>>]_vars

(* C24: a search issues exactly one request, whatever the page index was. *)
C24_OneRequestPerSearch ==
    [][ev'.op = "runSearch"
         => BagCardinality(priceReqs') = BagCardinality(priceReqs) + 1]_vars

(* C25: when the hook's loading is false no request of the hook is in      *)
(* flight, and when the price list's loading is false no request of the    *)
(* mounted price list is in flight.                                        *)
C25_LoadingCoversInFlight ==
    /\ ~api_loading => apiReqs = EmptyBag
    /\ ~loading => LiveCount(priceReqs) = 0

----------------------------------------------------------------------------
(* Properties of the report screen and the hook, checked under SpecReports.*)

ReportSettled == ev'.op = "apiSettle" /\ ev'.arg.req.caller = "ReportsScreen.load"

(* C9: a failed report load leaves the report as it was and the error set; *)
(* a successful one replaces the report by the response; nothing else      *)
(* changes the report.                                                     *)
C9_FailureKeepsReport ==
    [][/\ ReportSettled /\ Failed(ev'.arg.out)
          => report' = report /\ api_error' # Null
       /\ ReportSettled /\ ~Failed(ev'.arg.out)
          => report' = Some(ev'.arg.out.data)
       /\ report' # report
          => ReportSettled /\ ~Failed(ev'.arg.out)]_vars

(* a load failed after an earlier load had succeeded *)
C9_Witness ==
    /\ ev.op = "apiSettle"
    /\ ev.arg.req.caller = "ReportsScreen.load"
    /\ Failed(ev.arg.out)
    /\ report # Null
    /\ api_error # Null

(* C10: a call of get or post sets loading, its settling clears loading on *)
(* every path, each call settles once, and with no call in flight loading  *)
(* is false.                                                               *)
C10_LoadingPerCall ==
    /\ [](apiReqs = EmptyBag => ~api_loading)
    /\ [][/\ ev'.op \in {"pressLoad", "callPost"}
             => /\ api_loading'
                /\ BagCardinality(apiReqs') = BagCardinality(apiReqs) + 1
          /\ ev'.op = "apiSettle"
             => /\ ~api_loading'
                /\ apiReqs' = apiReqs (-) SetToBag({ev'.arg.req})
                /\ BagCardinality(apiReqs') = BagCardinality(apiReqs) - 1
          /\ api_loading' # api_loading
             => ev'.op \in {"pressLoad", "callPost", "apiSettle"}]_vars

(* a post settled with an undecodable body and left no call in flight *)
C10_Witness ==
    /\ ev.op = "apiSettle"
    /\ ev.arg.req.method = "POST"
    /\ IsThrown(ev.arg.out)
    /\ ev.arg.out.threw = "json"
    /\ apiReqs = EmptyBag
    /\ ~api_loading

(* C16: a call of get or post sets the error to null; a non-success status *)
(* sets it to detail.message when the body has one and to the serialized   *)
(* body otherwise; a body that cannot be decoded sets it to the generic    *)
(* "Request failed"; on a failure the caller's continuation does not run.  *)
C16_ErrorCapture ==
    [][/\ ev'.op \in {"pressLoad", "callPost"} => api_error' = Null
       /\ ev'.op = "apiSettle" /\ ~IsThrown(Out) /\ ~Out.ok
          => api_error' = Some(IF Has(Out, "detail") THEN Out.detail.message
                               ELSE JSONStringifyCompact(Out.members))
       /\ ev'.op = "apiSettle" /\ IsThrown(Out) /\ Out.threw = "json"
          => api_error' = Some(<<"Request failed">>)
       /\ ev'.op = "apiSettle" /\ Failed(Out) => report' = report]_vars

----------------------------------------------------------------------------
(* Properties of the controllers side by side, checked under SpecApp. *)

ChatOps == {"onChangeText", "sendInput", "runExample", "chatSettle"}

PriceOps == {"setQ", "runSearch", "prevPage", "nextPage", "priceSettle"}

ReportOps == {"setCid", "pressLoad", "callPost", "apiSettle"}

TabOps == {"pressTab", "onStart"}

(* C18: an event of one controller (a handler that issues a request, or a  *)
(* response or failure that it handles) leaves the state of the other two  *)
(* controllers as it was; busy, loading and the hook's loading and error   *)
(* change only in an event of their own controller or, for busy and        *)
(* loading, when a tab switch mounts or unmounts their own screen.         *)
C18_Isolation ==
    [][/\ ev'.op \in ChatOps => UNCHANGED <<priceVars, reportVars>>
       /\ ev'.op \in PriceOps => UNCHANGED <<chatVars, reportVars>>
       /\ ev'.op \in ReportOps => UNCHANGED <<chatVars, priceVars>>
       /\ ev'.op \in TabOps => UNCHANGED reportVars
       /\ busy' # busy
          => \/ ev'.op \in {"sendInput", "runExample", "chatSettle"}
             \/ ev'.op \in TabOps /\ tab = "chat" /\ tab' # "chat"
       /\ loading' # loading
          => \/ ev'.op \in {"runSearch", "prevPage", "nextPage", "priceSettle"}
             \/ ev'.op \in TabOps /\ tab # tab' /\ "pricing" \in {tab, tab'}
       /\ api_loading' # api_loading \/ api_error' # api_error
          => ev'.op \in {"pressLoad", "callPost", "apiSettle"}]_vars

(* a report load failed while the chat waited for its response and a       *)
(* request of the price list was still in flight                           *)
C18_Witness ==
    /\ ev.op = "apiSettle"
    /\ Failed(ev.arg.out)
    /\ api_error # Null
    /\ tab = "chat"
    /\ busy
    /\ BagCardinality(chatReqs) = 1
    /\ BagCardinality(priceReqs) = 1

====
